---------------------------- MODULE Spec2Model ----------------------------
(***************************************************************************)
(* minui-presenter (extended implementation): the main loop, handle_input, *)
(* the scroll recompute of draw_screen, the text layout of draw_screen and *)
(* the signal handler, as a state machine.                                 *)
(***************************************************************************)
EXTENDS Integers, Naturals, Sequences, FiniteSets, TLC

(***************************************************************************)
(* Bounds of the model and platform metrics.  The platform header          *)
(* (defines.h) and the font are not part of the repository: their values   *)
(* are parameters of the model.                                            *)
(***************************************************************************)
MaxItems == 3
ScreenH == 130
ScreenW == 120
FontH == 30
SmallFontH == 10
LetterWidth == 10

FIXED_SCALE == 1
PADDING == 10
BUTTON_PADDING == 5
ScrollStep == 20
MAX_MESSAGES == 512
MAX_WORDS == 1024

ExitCodeSuccess == 0
ExitCodeError == 1
ExitCodeInactionButton == 11
ExitCodeActionButton == 12
ExitCodeCancelButton == 13
ExitCodeConfirmButton == 14
ExitCodeTimeout == 124
ExitCodeKeyboardInterrupt == 130
ExitCodeSigterm == 143

SCALE1(x) == x * FIXED_SCALE
MAX(a, b) == IF a > b THEN a ELSE b
MIN(a, b) == IF a < b THEN a ELSE b

(***************************************************************************)
(* Characters of a text.  A text is a sequence of characters; NL is a real *)
(* line feed, BS a backslash, TAB a tab, SP a space.                       *)
(***************************************************************************)
NL == "NL"
BS == "BS"
TAB == "TAB"
SP == " "

isspace(c) == c \in {SP, TAB, NL}

\* convert_escaped_newlines: a backslash followed by n becomes one line feed
RECURSIVE convert_escaped_newlines(_)
convert_escaped_newlines(str) ==
    IF str = << >> THEN << >>
    ELSE IF str[1] = BS /\ Len(str) >= 2 /\ str[2] = "n"
         THEN <<NL>> \o convert_escaped_newlines(SubSeq(str, 3, Len(str)))
         ELSE <<str[1]>> \o convert_escaped_newlines(SubSeq(str, 2, Len(str)))

\* strtok_r called until NULL: the maximal runs of non-delimiter characters
RECURSIVE strtok_r(_, _, _)
strtok_r(str, delim, cur) ==
    IF str = << >> THEN (IF cur = << >> THEN << >> ELSE <<cur>>)
    ELSE IF str[1] = delim
         THEN (IF cur = << >> THEN << >> ELSE <<cur>>)
              \o strtok_r(Tail(str), delim, << >>)
         ELSE strtok_r(Tail(str), delim, Append(cur, str[1]))

RECURSIVE TrimRight(_)
TrimRight(s) ==
    IF s # << >> /\ isspace(s[Len(s)]) THEN TrimRight(SubSeq(s, 1, Len(s) - 1))
    ELSE s

RECURSIVE TrimLeft(_)
TrimLeft(s) ==
    IF s # << >> /\ isspace(s[1]) THEN TrimLeft(Tail(s)) ELSE s

\* strtrim: trailing white space is cut, then leading white space
strtrim(s) == TrimLeft(TrimRight(s))

\* TTF_SizeUTF8 of the large font: the width of a string
RECURSIVE TextWidth(_)
TextWidth(s) ==
    IF s = << >> THEN 0
    ELSE (IF s[1] = "W" THEN 2 * LetterWidth ELSE LetterWidth) + TextWidth(Tail(s))

(***************************************************************************)
(* draw_screen, first loop: the words of the text.  A word is a record     *)
(* [message, width, is_newline].                                           *)
(***************************************************************************)
RECURSIVE WordsOfLine(_, _, _, _)
WordsOfLine(tokens, first_line, first_word_in_line, budget) ==
    IF tokens = << >> \/ budget <= 0 THEN << >>
    ELSE LET word == strtrim(tokens[1]) IN
         IF word # << >>
         THEN <<[message |-> word, width |-> TextWidth(word),
                 is_newline |-> (~first_line) /\ first_word_in_line]>>
              \o WordsOfLine(Tail(tokens), first_line, FALSE, budget - 1)
         ELSE WordsOfLine(Tail(tokens), first_line, first_word_in_line, budget)

\* the outer loop for an array of max_messages lines
RECURSIVE WordsOfLinesLim(_, _, _, _, _)
WordsOfLinesLim(lines, first_line, line_count, budget, max_messages) ==
    IF lines = << >> \/ line_count >= max_messages THEN << >>
    ELSE LET ws == WordsOfLine(strtok_r(lines[1], SP, << >>), first_line, TRUE, budget) IN
         ws \o WordsOfLinesLim(Tail(lines), FALSE, line_count + 1, budget - Len(ws),
                               max_messages)

WordsOfLines(lines, first_line, line_count, budget) ==
    WordsOfLinesLim(lines, first_line, line_count, budget, MAX_MESSAGES)

\* the first loop for arrays of max_words words and max_messages lines
SplitWordsLim(text, max_messages, max_words) ==
    WordsOfLinesLim(strtok_r(convert_escaped_newlines(text), NL, << >>), TRUE, 0,
                    max_words, max_messages)

SplitWords_NoLineSplit(text) ==
    WordsOfLines(<<convert_escaped_newlines(text)>>, TRUE, 0, MAX_WORDS)

SplitWords(text) == SplitWordsLim(text, MAX_MESSAGES, MAX_WORDS)

(***************************************************************************)
(* draw_screen, second loop: the words packed into lines.  messages[k] of  *)
(* the code is messages[k + 1] here.                                       *)
(***************************************************************************)
message_padding == SCALE1(PADDING + BUTTON_PADDING)
AvailableWidth == ScreenW - 2 * message_padding

EmptyMessage == [words |-> << >>, width |-> 0]

NewMessage_WidthOnly(w) == [words |-> << >>, width |-> w.width]

\* a line started with a word: the word is copied and its width recorded
NewMessage(w) == [words |-> <<w.message>>, width |-> w.width]

LinesFull_NoMargin(idx, max_messages) == idx >= max_messages

\* the test at the top of the packing loop: the last line of the array is
\* in use
LinesFull(idx, max_messages) == idx >= max_messages - 1

\* one turn of the packing loop for an available width of avail and an
\* array of max_messages lines
PackWordLim(acc, w, avail, max_messages) ==
    LET idx == acc.current_message_index
        cur == acc.messages[idx + 1]
        potential_width == cur.width + w.width
                           + (IF cur.width > 0 THEN LetterWidth ELSE 0)
        opened == [messages |-> Append(acc.messages, NewMessage(w)),
                   current_message_index |-> idx + 1,
                   message_count |-> acc.message_count + 1,
                   stopped |-> FALSE]
    IN  IF acc.stopped \/ LinesFull(idx, max_messages)
        THEN [acc EXCEPT !.stopped = TRUE]
        ELSE IF w.is_newline THEN opened
        ELSE IF cur.width = 0
             THEN [acc EXCEPT !.messages[idx + 1] = NewMessage(w)]
        ELSE IF potential_width <= avail
             THEN [acc EXCEPT !.messages[idx + 1] =
                       [words |-> Append(cur.words, w.message),
                        width |-> cur.width + w.width + LetterWidth]]
        ELSE opened

PackWordIn_NoGap(acc, w, avail) ==
    LET idx == acc.current_message_index
        cur == acc.messages[idx + 1]
        potential_width == cur.width + w.width
        opened == [messages |-> Append(acc.messages, NewMessage(w)),
                   current_message_index |-> idx + 1,
                   message_count |-> acc.message_count + 1,
                   stopped |-> FALSE]
    IN  IF acc.stopped \/ idx >= MAX_MESSAGES - 1
        THEN [acc EXCEPT !.stopped = TRUE]
        ELSE IF w.is_newline THEN opened
        ELSE IF cur.width = 0
             THEN [acc EXCEPT !.messages[idx + 1] = NewMessage(w)]
        ELSE IF potential_width <= avail
             THEN [acc EXCEPT !.messages[idx + 1] =
                       [words |-> Append(cur.words, w.message),
                        width |-> cur.width + w.width + LetterWidth]]
        ELSE opened

\* one turn of the packing loop for an available width of avail
PackWordIn(acc, w, avail) == PackWordLim(acc, w, avail, MAX_MESSAGES)

PackWord(acc, w) == PackWordIn(acc, w, AvailableWidth)

RECURSIVE PackWordsIn(_, _, _)
PackWordsIn(acc, words, avail) ==
    IF words = << >> THEN acc
    ELSE PackWordsIn(PackWordIn(acc, words[1], avail), Tail(words), avail)

PackWords(acc, words) == PackWordsIn(acc, words, AvailableWidth)

\* before the packing loop: messages[0] is empty
NoLines == [messages |-> <<EmptyMessage>>, current_message_index |-> 0,
            message_count |-> 0, stopped |-> FALSE]

RECURSIVE PackWordsLim(_, _, _, _)
PackWordsLim(acc, words, avail, max_messages) ==
    IF words = << >> THEN acc
    ELSE PackWordsLim(PackWordLim(acc, words[1], avail, max_messages), Tail(words),
                      avail, max_messages)

\* the two loops of draw_screen for arrays of max_words words and
\* max_messages lines
LayoutLim(text, avail, max_messages, max_words) ==
    PackWordsLim(NoLines, SplitWordsLim(text, max_messages, max_words), avail,
                 max_messages)

\* the indices of messages that the render loop reads
RenderedIndices(message_count) == 0..message_count

\* the two loops of draw_screen for an available width of avail
LayoutIn(text, avail) ==
    PackWordsIn(NoLines, SplitWords(text), avail)

Layout(text) == LayoutIn(text, AvailableWidth)

\* word_height is what the last TTF_SizeUTF8 of a word left in it (0 if none)
WordHeight(text) == IF SplitWords(text) = << >> THEN 0 ELSE FontH

MessagesHeight_GapPerLine(idx, word_height, line_spacing) ==
    (idx + 1) * word_height + (idx + 1) * SCALE1(line_spacing)

\* the height of idx + 1 lines of height word_height
MessagesHeight(idx, word_height, line_spacing) ==
    (idx + 1) * word_height
    + (IF idx > 0 THEN idx * SCALE1(line_spacing) ELSE 0)

messages_height(text, line_spacing) ==
    MessagesHeight(Layout(text).current_message_index, WordHeight(text), line_spacing)

(***************************************************************************)
(* The catalog.  Item i (0-based, as in the code) has a text of            *)
(* LinesOfItem(i) one-word paragraphs; only item 0 names a background      *)
(* image.  The catalog is fixed after load.                                *)
(***************************************************************************)
LinesOfItem(i) == CASE i % 3 = 0 -> 4 [] i % 3 = 1 -> 1 [] OTHER -> 3

RECURSIVE MkText(_)
MkText(n) == IF n <= 1 THEN <<"a">> ELSE MkText(n - 1) \o <<BS, "n", "a">>

ItemText(i) == MkText(LinesOfItem(i))
ItemHasImage(i) == i = 0
ItemLineSpacing(i) == PADDING

Face == {"A", "B", "X", "Y"}

VARIABLES
    state,                       \* struct AppState (with items_state and scroll_state)
    increment_item_list_index,   \* the flag the SIGUSR1 handler sets
    spinner_active,              \* g_options.spinner.active
    pad,                         \* the button events of the current frame
    pc,                          \* position of main
    elapsed,                     \* last value read of tv_sec - start_time.tv_sec
    image_file,                  \* does the background image file of item 0 exist
    out,                         \* what was written to standard output
    exit_status,                 \* the exit status of the process, -1 while it runs
    hand,                        \* history of the signals delivered and the advances applied
    doc,                         \* the JSON document given to ItemsState_New
    lay                          \* a text, an available width, and its layout

\* the variables only the runs about signals, loading and layout change
auxvars == <<hand, doc, lay>>

vars == <<state, increment_item_list_index, spinner_active, pad, pc, elapsed,
          image_file, out, exit_status, hand, doc, lay>>

NoInput == [polled |-> FALSE, released |-> {}, up |-> FALSE, down |-> FALSE,
            left |-> "none", right |-> "none"]

\* just_pressed implies just_repeated in PAD_poll: a direction is not active,
\* newly pressed, or repeated while held
DirStates == {"none", "pressed", "repeated"}

\* what PAD_poll can report in one frame: UP wins over DOWN and LEFT over
\* RIGHT in handle_input, so one vertical and one horizontal direction
AllFrames ==
    {f \in [polled : {FALSE}, released : SUBSET Face, up : BOOLEAN, down : BOOLEAN,
            left : DirStates, right : DirStates] :
        /\ ~(f.up /\ f.down)
        /\ (f.left = "none" \/ f.right = "none")}

NoDirection(f) == ~f.up /\ ~f.down /\ f.left = "none" /\ f.right = "none"

\* frames of the navigation runs: any directions, or one face button
Frames ==
    {f \in AllFrames : f.released = {} \/ (Cardinality(f.released) = 1 /\ NoDirection(f))}

\* frames of the button runs: any set of face buttons, or one direction
ButtonFrames ==
    {f \in AllFrames :
        \/ NoDirection(f)
        \/ /\ f.released = {}
           /\ (f.up \/ f.down) = (f.left = "none" /\ f.right = "none")
           /\ "repeated" \notin {f.left, f.right}}

PAD_justRepeated(f, d) == f[d] \in {"pressed", "repeated"}
PAD_justPressed(f, d) == f[d] = "pressed"

(***************************************************************************)
(* parse_arguments: the validation of the button assignment.               *)
(***************************************************************************)
RolesOn(cfg, b) ==
    {r \in {"action_button", "cancel_button", "confirm_button", "inaction_button"} :
        cfg[r] = b}

\* the order in which the checks of one hardware button look at the roles
RoleOrder == <<"action_button", "cancel_button", "confirm_button", "inaction_button">>

\* the checks of the hardware button b from role k on: assigned is the
\* b_button_assigned flag; FALSE is the return false
RECURSIVE CheckRoles(_, _, _, _, _)
CheckRoles(cfg, b, roles, k, assigned) ==
    IF k > Len(roles) THEN TRUE
    ELSE IF cfg[roles[k]] = b
         THEN IF assigned THEN FALSE ELSE CheckRoles(cfg, b, roles, k + 1, TRUE)
         ELSE CheckRoles(cfg, b, roles, k + 1, assigned)

ButtonAssignedOnce_IgnoreInaction(cfg, b) ==
    CheckRoles(cfg, b, SubSeq(RoleOrder, 1, Len(RoleOrder) - 1), 1, FALSE)

ButtonAssignedOnce(cfg, b) == CheckRoles(cfg, b, RoleOrder, 1, FALSE)

\* the last four checks: every role names A, B, X, Y or nothing
ButtonNamesValid(cfg) ==
    \A k \in 1..Len(RoleOrder) : cfg[RoleOrder[k]] \in Face \cup {""}

ButtonsValid(cfg) ==
    /\ \A b \in Face : ButtonAssignedOnce(cfg, b)
    /\ ButtonNamesValid(cfg)

Bindings ==
    {[action_button |-> "", confirm_button |-> "", cancel_button |-> "",
      inaction_button |-> ""],
     [action_button |-> "X", confirm_button |-> "A", cancel_button |-> "B",
      inaction_button |-> "Y"],
     [action_button |-> "B", confirm_button |-> "Y", cancel_button |-> "A",
      inaction_button |-> ""]}

\* the show flags: every flag takes both values
Shows ==
    {[action_show |-> a, inaction_show |-> ~a, confirm_show |-> c, cancel_show |-> ~c] :
        a \in BOOLEAN, c \in BOOLEAN}

TimeoutT == 2
MaxTime == TimeoutT
Timeouts == {-1, 0, TimeoutT}

InitScroll_Top == [scroll_position |-> 0, content_height |-> 0, viewport_height |-> 0,
                   needs_scroll |-> FALSE, scroll_to_bottom |-> FALSE]

\* the scroll state of a new AppState: the jump to the bottom is pending
InitScroll == [scroll_position |-> 0, content_height |-> 0, viewport_height |-> 0,
               needs_scroll |-> FALSE, scroll_to_bottom |-> TRUE]

\* struct AppState after parse_arguments for a configuration
InitState(n, b, sh, t, q, w, stl, sel) ==
    [redraw |-> 1, quitting |-> 0, exit_code |-> ExitCodeSuccess,
     action_button |-> b.action_button, action_show |-> sh.action_show,
     confirm_button |-> b.confirm_button, confirm_show |-> sh.confirm_show,
     cancel_button |-> b.cancel_button, cancel_show |-> sh.cancel_show,
     inaction_button |-> b.inaction_button, inaction_show |-> sh.inaction_show,
     quit_after_last_item |-> q, no_wrap |-> w,
     show_time_left |-> stl, timeout_seconds |-> t,
     item_count |-> n, selected |-> sel,
     items |-> [i \in 0..(n - 1) |->
                   [text |-> ItemText(i), background_image |-> ItemHasImage(i),
                    line_spacing |-> ItemLineSpacing(i)]],
     image_exists |-> [i \in 0..(n - 1) |-> FALSE],
     scroll_state |-> InitScroll]

\* no signal delivered yet, no advance applied
NoHand == [delivered |-> 0, applied |-> 0, cycle |-> 0, pending |-> FALSE,
           signal |-> "none"]

\* no document: the catalog came from --message
NoDoc == [form |-> "message", items |-> << >>, selected |-> << >>,
          line_spacing |-> << >>, loaded |-> << >>]

\* nothing laid out
NoLay == [text |-> << >>, avail |-> 0, line_spacing |-> 0, max_messages |-> 0,
          max_words |-> 0, done |-> FALSE, messages |-> << >>, message_count |-> 0,
          current_message_index |-> 0, word_count |-> 0, word_height |-> 0,
          stopped |-> FALSE, rendered |-> {}]

InitRest ==
    /\ hand = NoHand
    /\ doc = NoDoc
    /\ lay = NoLay
    /\ image_file = FALSE
    /\ increment_item_list_index = 0
    /\ pad = NoInput
    /\ pc = "input"
    /\ elapsed = 0
    /\ out = << >>
    /\ exit_status = -1

NavBinding == CHOOSE b \in Bindings : b.action_button = "X"
NavShows == CHOOSE sh \in Shows : sh.action_show /\ sh.confirm_show

\* the navigation runs: every catalog size, wrap policy, quit-after-last and
\* timeout mode, one button assignment
Init ==
    /\ spinner_active \in BOOLEAN
    /\ \E n \in 1..MaxItems, t \in Timeouts, q \in BOOLEAN, w \in BOOLEAN,
          stl \in BOOLEAN :
         /\ (stl => t > 0)
         /\ (spinner_active => t = 0)
         /\ state = InitState(n, NavBinding, NavShows, t, q, w, stl, 0)
    /\ InitRest

\* the button runs: every button assignment and show flag, one catalog
InitButtons ==
    /\ \E b \in Bindings, sh \in Shows, q \in BOOLEAN :
         /\ ButtonsValid(b)
         /\ state = InitState(2, b, sh, 0, q, FALSE, FALSE, 0)
    /\ spinner_active = FALSE
    /\ InitRest

(***************************************************************************)
(* handle_input, block by block.                                           *)
(***************************************************************************)
\* the lazy existence check of the selected item's background image
CheckImage(st, file) ==
    IF ~st.image_exists[st.selected] /\ ItemHasImage(st.selected) /\ file
    THEN [st EXCEPT !.image_exists[st.selected] = TRUE, !.redraw = 1]
    ELSE st

Quit(st, code) == [st EXCEPT !.redraw = 0, !.quitting = 1, !.exit_code = code]

\* the block guarded by increment_item_list_index
AdvanceItem(st) ==
    LET s1 == [st EXCEPT !.selected = st.selected + 1]
        s2 == IF s1.selected >= s1.item_count
              THEN IF s1.quit_after_last_item
                   THEN Quit(s1, ExitCodeSuccess)
                   ELSE [s1 EXCEPT !.selected = 0]
              ELSE s1
    IN  [state |-> [s2 EXCEPT !.redraw = 1],
         should_return |-> s1.selected >= s1.item_count /\ s1.quit_after_last_item]

ReleasedButton_YFirst(f) ==
    IF "Y" \in f.released THEN "Y"
    ELSE IF "X" \in f.released THEN "X"
    ELSE IF "B" \in f.released THEN "B"
    ELSE IF "A" \in f.released THEN "A"
    ELSE "none"

\* the else-if chain over PAD_justReleased(BTN_A), BTN_B, BTN_X, BTN_Y
ReleasedButton(f) ==
    IF "A" \in f.released THEN "A"
    ELSE IF "B" \in f.released THEN "B"
    ELSE IF "X" \in f.released THEN "X"
    ELSE IF "Y" \in f.released THEN "Y"
    ELSE "none"

\* variant: confirm and cancel are taken only when their show flag is set
PressedRole_ShowGated(st, f) ==
    LET b == ReleasedButton(f) IN
    IF b = "none" THEN "none"
    ELSE IF st.action_button = b THEN "action"
    ELSE IF st.confirm_button = b /\ st.confirm_show THEN "confirm"
    ELSE IF st.cancel_button = b /\ st.cancel_show THEN "cancel"
    ELSE IF st.inaction_button = b THEN "inaction"
    ELSE "none"

\* the strcmp chain of the released button against the four roles
PressedRole(st, f) ==
    LET b == ReleasedButton(f) IN
    IF b = "none" THEN "none"
    ELSE IF st.action_button = b THEN "action"
    ELSE IF st.confirm_button = b THEN "confirm"
    ELSE IF st.cancel_button = b THEN "cancel"
    ELSE IF st.inaction_button = b THEN "inaction"
    ELSE "none"

ActionPressed(st) == Quit(st, ExitCodeActionButton)

\* what the confirm block prints: the 1-based selected index
ConfirmOutput(st) ==
    IF st.selected >= 0 /\ st.selected < st.item_count
    THEN <<st.selected + 1>> ELSE << >>

ConfirmPressed(st) == Quit(st, ExitCodeConfirmButton)

CancelPressed(st) == Quit(st, ExitCodeCancelButton)

InactionPressed(st) == Quit(st, ExitCodeInactionButton)

scroll_speed == SCALE1(ScrollStep)

\* scrolling with UP / DOWN
ScrollInput(st, f) ==
    LET sc == st.scroll_state IN
    IF f.up
    THEN IF sc.needs_scroll
         THEN [st EXCEPT !.scroll_state.scroll_position =
                             MAX(0, sc.scroll_position - scroll_speed),
                         !.redraw = 1,
                         !.scroll_state.scroll_to_bottom = FALSE]
         ELSE st
    ELSE IF f.down
    THEN IF sc.needs_scroll
         THEN [st EXCEPT !.scroll_state.scroll_position =
                             MIN(sc.content_height - sc.viewport_height,
                                 sc.scroll_position + scroll_speed),
                         !.redraw = 1,
                         !.scroll_state.scroll_to_bottom = FALSE]
         ELSE st
    ELSE st

\* variant: no_wrap is not looked at, item 0 always wraps to the last item
NavigateLeft_AlwaysWrap(st, f) ==
    IF st.selected = 0 /\ ~PAD_justPressed(f, "left")
    THEN [st EXCEPT !.redraw = 0]
    ELSE IF st.selected - 1 < 0
         THEN [st EXCEPT !.selected = st.item_count - 1, !.redraw = 1,
                         !.scroll_state.scroll_position = 0,
                         !.scroll_state.scroll_to_bottom = TRUE]
         ELSE [st EXCEPT !.selected = st.selected - 1, !.redraw = 1,
                         !.scroll_state.scroll_position = 0,
                         !.scroll_state.scroll_to_bottom = TRUE]

\* variant: the wrap from item 0 does not set redraw
NavigateLeft_WrapNoRedraw(st, f) ==
    IF st.selected = 0 /\ ~PAD_justPressed(f, "left")
    THEN [st EXCEPT !.redraw = 0]
    ELSE IF st.selected - 1 < 0
         THEN IF st.no_wrap
              THEN [st EXCEPT !.selected = 0, !.redraw = 0]
              ELSE [st EXCEPT !.selected = st.item_count - 1, !.redraw = 0,
                              !.scroll_state.scroll_position = 0,
                              !.scroll_state.scroll_to_bottom = TRUE]
         ELSE [st EXCEPT !.selected = st.selected - 1, !.redraw = 1,
                         !.scroll_state.scroll_position = 0,
                         !.scroll_state.scroll_to_bottom = TRUE]

\* the branch of PAD_justRepeated(BTN_LEFT)
NavigateLeft(st, f) ==
    IF st.selected = 0 /\ ~PAD_justPressed(f, "left")
    THEN [st EXCEPT !.redraw = 0]
    ELSE IF st.selected - 1 < 0
         THEN IF st.no_wrap
              THEN [st EXCEPT !.selected = 0, !.redraw = 0]
              ELSE [st EXCEPT !.selected = st.item_count - 1, !.redraw = 1,
                              !.scroll_state.scroll_position = 0,
                              !.scroll_state.scroll_to_bottom = TRUE]
         ELSE [st EXCEPT !.selected = st.selected - 1, !.redraw = 1,
                         !.scroll_state.scroll_position = 0,
                         !.scroll_state.scroll_to_bottom = TRUE]

\* variant: no_wrap is tested before quit_after_last_item
NavigateRight_NoWrapFirst(st, f) ==
    IF st.selected = st.item_count - 1 /\ ~PAD_justPressed(f, "right")
    THEN [st EXCEPT !.redraw = 0]
    ELSE IF st.selected + 1 >= st.item_count
         THEN IF st.no_wrap
              THEN [st EXCEPT !.selected = st.item_count - 1, !.redraw = 0]
              ELSE IF st.quit_after_last_item
                   THEN Quit([st EXCEPT !.selected = st.selected + 1], ExitCodeSuccess)
                   ELSE [st EXCEPT !.selected = 0, !.redraw = 1]
         ELSE [st EXCEPT !.selected = st.selected + 1, !.redraw = 1]

\* the branch of PAD_justRepeated(BTN_RIGHT)
NavigateRight(st, f) ==
    IF st.selected = st.item_count - 1 /\ ~PAD_justPressed(f, "right")
    THEN [st EXCEPT !.redraw = 0]
    ELSE IF st.selected + 1 >= st.item_count
         THEN IF st.quit_after_last_item
              THEN Quit([st EXCEPT !.selected = st.selected + 1], ExitCodeSuccess)
              ELSE IF st.no_wrap
                   THEN [st EXCEPT !.selected = st.item_count - 1, !.redraw = 0]
                   ELSE [st EXCEPT !.selected = 0, !.redraw = 1]
         ELSE [st EXCEPT !.selected = st.selected + 1, !.redraw = 1]

Navigate(st, f) ==
    IF PAD_justRepeated(f, "left") THEN NavigateLeft(st, f)
    ELSE IF PAD_justRepeated(f, "right") THEN NavigateRight(st, f)
    ELSE st

\* handle_input after PAD_poll
HandlePad(st, f) ==
    LET role == PressedRole(st, f) IN
    CASE role = "action"   -> [state |-> ActionPressed(st), printed |-> << >>]
      [] role = "confirm"  -> [state |-> ConfirmPressed(st), printed |-> ConfirmOutput(st)]
      [] role = "cancel"   -> [state |-> CancelPressed(st), printed |-> << >>]
      [] role = "inaction" -> [state |-> InactionPressed(st), printed |-> << >>]
      [] OTHER             -> [state |-> Navigate(ScrollInput(st, f), f), printed |-> << >>]

handle_input_NoDisplayOnly(st, flag, f, file) ==
    LET s1 == CheckImage(st, file)
        adv == IF flag # 0 THEN AdvanceItem(s1)
               ELSE [state |-> s1, should_return |-> FALSE]
    IN  IF adv.should_return
        THEN [state |-> adv.state, flag |-> 0, polled |-> FALSE, printed |-> << >>]
        ELSE LET r == HandlePad(adv.state, f) IN
             [state |-> r.state, flag |-> 0, polled |-> TRUE, printed |-> r.printed]

\* handle_input: the new AppState, the new flag, whether PAD_poll was
\* reached, and what was printed
handle_input(st, flag, f, file) ==
    LET s1 == CheckImage(st, file)
        adv == IF flag # 0 THEN AdvanceItem(s1)
               ELSE [state |-> s1, should_return |-> FALSE]
    IN  IF s1.timeout_seconds < 0
        THEN [state |-> s1, flag |-> flag, polled |-> FALSE, printed |-> << >>]
        ELSE IF adv.should_return
        THEN [state |-> adv.state, flag |-> 0, polled |-> FALSE, printed |-> << >>]
        ELSE LET r == HandlePad(adv.state, f) IN
             [state |-> r.state, flag |-> 0, polled |-> TRUE, printed |-> r.printed]

(***************************************************************************)
(* draw_screen: the scroll recompute (the pixels are not modelled).        *)
(***************************************************************************)
initial_padding(st) ==
    IF st.show_time_left /\ st.timeout_seconds > 0
    THEN SmallFontH + SCALE1(PADDING) ELSE 0

ViewportHeight(st) == ScreenH - SCALE1(PADDING * 2) - initial_padding(st)

\* the recompute for a content of height h
RecomputeScroll(st, h) ==
    LET vh == ViewportHeight(st)
        needs == h > vh
        sc == [st.scroll_state EXCEPT !.viewport_height = vh,
                                      !.content_height = h,
                                      !.needs_scroll = needs]
    IN  IF sc.scroll_to_bottom /\ needs
        THEN [sc EXCEPT !.scroll_position = h - vh, !.scroll_to_bottom = FALSE]
        ELSE sc

ValidIndex(st) == st.selected >= 0 /\ st.selected < st.item_count

\* the height draw_screen computes for the text of each item of the catalog
ItemHeight ==
    [i \in 0..(MaxItems - 1) |-> messages_height(ItemText(i), ItemLineSpacing(i))]

GarbageHeights == {0} \cup {ItemHeight[i] : i \in 0..(MaxItems - 1)}

draw_screen_SplitInPlace(st, h) ==
    LET lines == IF st.selected \in DOMAIN st.items
                 THEN strtok_r(convert_escaped_newlines(st.items[st.selected].text),
                               NL, << >>)
                 ELSE << >>
        s1 == IF lines = << >> THEN st
              ELSE [st EXCEPT !.items[st.selected].text = lines[1]]
    IN  [s1 EXCEPT !.scroll_state = RecomputeScroll(st, h), !.redraw = 0]

\* draw_screen lays out a copy of the text (original_message); it writes
\* the scroll state and clears redraw
draw_screen(st, h) ==
    [st EXCEPT !.scroll_state = RecomputeScroll(st, h), !.redraw = 0]

(***************************************************************************)
(* main: one loop iteration is handle_input, then draw_screen or GFX_sync, *)
(* then the timeout check; the loop test follows the timeout check.        *)
(***************************************************************************)
Alive == pc \in {"input", "lock", "clear", "advance", "poll", "draw", "timeout",
                "destruct"}

HandleInputOn(F) ==
    /\ pc = "input"
    /\ \E f \in F :
         LET r == handle_input(state, increment_item_list_index, f, image_file) IN
         /\ state' = r.state
         /\ increment_item_list_index' = r.flag
         /\ pad' = [f EXCEPT !.polled = r.polled]
         /\ out' = out \o r.printed
    /\ pc' = "draw"
    /\ UNCHANGED <<auxvars, spinner_active, elapsed, image_file, exit_status>>

HandleInput == HandleInputOn(Frames)

HandleInputButtons == HandleInputOn(ButtonFrames)

DrawScreen ==
    /\ pc = "draw"
    /\ (state.redraw # 0 \/ spinner_active)
    /\ ValidIndex(state)
    /\ state' = draw_screen(state, ItemHeight[state.selected])
    /\ pad' = NoInput
    /\ pc' = "timeout"
    /\ UNCHANGED <<auxvars, increment_item_list_index, spinner_active, elapsed, image_file,
                   out, exit_status>>

\* draw_screen reads items[selected] outside the array: undefined behaviour,
\* the process faults or lays out whatever the read returned
DrawScreenInvalid ==
    /\ pc = "draw"
    /\ (state.redraw # 0 \/ spinner_active)
    /\ ~ValidIndex(state)
    /\ \/ /\ pc' = "crashed"
          /\ exit_status' = 139
          /\ state' = state
       \/ /\ \E h \in GarbageHeights : state' = draw_screen(state, h)
          /\ pc' = "timeout"
          /\ exit_status' = exit_status
    /\ pad' = NoInput
    /\ UNCHANGED <<auxvars, increment_item_list_index, spinner_active, elapsed, image_file, out>>

GfxSync ==
    /\ pc = "draw"
    /\ ~(state.redraw # 0 \/ spinner_active)
    /\ pad' = NoInput
    /\ pc' = "timeout"
    /\ UNCHANGED <<auxvars, state, increment_item_list_index, spinner_active, elapsed,
                   image_file, out, exit_status>>

TimeoutBlock_Late(st, t) ==
    LET s1 == IF t > st.timeout_seconds
              THEN [st EXCEPT !.exit_code = ExitCodeTimeout, !.quitting = 1]
              ELSE st
    IN  IF t # 0 /\ s1.show_time_left THEN [s1 EXCEPT !.redraw = 1] ELSE s1

\* the timeout block for a clock reading of t whole seconds since start_time
TimeoutBlock(st, t) ==
    LET s1 == IF t >= st.timeout_seconds
              THEN [st EXCEPT !.exit_code = ExitCodeTimeout, !.quitting = 1]
              ELSE st
    IN  IF t # 0 /\ s1.show_time_left THEN [s1 EXCEPT !.redraw = 1] ELSE s1

TimeoutCheck ==
    /\ pc = "timeout"
    /\ IF state.timeout_seconds > 0
       THEN \E t \in elapsed..MaxTime :
              /\ elapsed' = t
              /\ state' = TimeoutBlock(state, t)
       ELSE UNCHANGED <<state, elapsed>>
    /\ pc' = IF state'.quitting # 0 THEN "destruct" ELSE "input"
    /\ UNCHANGED <<auxvars, increment_item_list_index, spinner_active, pad, image_file,
                   out, exit_status>>

MainReturn ==
    /\ pc = "destruct"
    /\ exit_status' = state.exit_code
    /\ pc' = "done"
    /\ UNCHANGED <<auxvars, state, increment_item_list_index, spinner_active, pad, elapsed,
                   image_file, out>>

(***************************************************************************)
(* signal_handler, and the file system.                                    *)
(***************************************************************************)
SigUsr1 ==
    /\ Alive
    /\ increment_item_list_index' = 1
    /\ UNCHANGED <<auxvars, state, spinner_active, pad, pc, elapsed, image_file, out,
                   exit_status>>

SigExit(code) ==
    /\ Alive
    /\ exit_status' = code
    /\ pc' = "exited"
    /\ UNCHANGED <<auxvars, state, increment_item_list_index, spinner_active, pad, elapsed,
                   image_file, out>>

SigInt == SigExit(ExitCodeKeyboardInterrupt)

SigTerm == SigExit(ExitCodeSigterm)

ImageAppears ==
    /\ Alive
    /\ ~image_file
    /\ image_file' = TRUE
    /\ UNCHANGED <<auxvars, state, increment_item_list_index, spinner_active, pad, pc,
                   elapsed, out, exit_status>>

Next ==
    \/ HandleInput
    \/ DrawScreen
    \/ DrawScreenInvalid
    \/ GfxSync
    \/ TimeoutCheck
    \/ MainReturn
    \/ SigUsr1
    \/ SigInt
    \/ SigTerm
    \/ ImageAppears

Spec == Init /\ [][Next]_vars

NextButtons ==
    \/ HandleInputButtons
    \/ DrawScreen
    \/ DrawScreenInvalid
    \/ GfxSync
    \/ TimeoutCheck
    \/ MainReturn
    \/ SigUsr1
    \/ SigInt
    \/ SigTerm
    \/ ImageAppears

SpecButtons == InitButtons /\ [][NextButtons]_vars

(***************************************************************************)
(* Steps of handle_input seen from outside: the frame is in pad'.          *)
(***************************************************************************)
\* handle_input ran and reached PAD_poll
Polled == pc = "input" /\ pad'.polled

\* PAD_poll reported the release of exactly the face button b
OnlyReleased(b) == Polled /\ b \in Face /\ pad'.released = {b}

\* PAD_poll reported no face button, and no advance was pending
NavOnly == Polled /\ pad'.released = {} /\ increment_item_list_index = 0

PressLeft == NavOnly /\ pad'.left = "pressed"
MoveLeft == NavOnly /\ pad'.left # "none"
PressRight == NavOnly /\ pad'.left = "none" /\ pad'.right = "pressed"
MoveRight == NavOnly /\ pad'.left = "none" /\ pad'.right # "none"

AtLast == state.selected = state.item_count - 1
AtFirst == state.selected = 0

(***************************************************************************)
(* C1: once a step of the loop has set quitting with exit code c, no later *)
(* step of the loop changes the exit code, handle_input is not invoked     *)
(* again, and main returns exactly c.                                      *)
(***************************************************************************)
C1_SingleTerminalValue ==
    [][(state.quitting # 0 /\ pc' \notin {"exited", "crashed"}) =>
         /\ state'.exit_code = state.exit_code
         /\ state'.quitting # 0
         /\ pc' # "input"
         /\ (pc' = "done" => exit_status' = state.exit_code)]_vars

(***************************************************************************)
(* C2: in every state, for every no_wrap, quit_after_last_item and         *)
(* item_count, 0 <= selected <= item_count - 1.                            *)
(***************************************************************************)
C2_SelectedInRange ==
    state.selected >= 0 /\ state.selected <= state.item_count - 1

(***************************************************************************)
(* C3: in every state the scroll position lies between 0 and               *)
(* max(0, content_height - viewport_height) of the selected item.          *)
(***************************************************************************)
MaxScrollOfSelected ==
    MAX(0, messages_height(ItemText(state.selected), ItemLineSpacing(state.selected))
           - ViewportHeight(state))

C3_ScrollBound ==
    ValidIndex(state) =>
        /\ state.scroll_state.scroll_position >= 0
        /\ state.scroll_state.scroll_position <= MaxScrollOfSelected

(***************************************************************************)
(* C4: a release of the confirm button with selected = k prints k + 1,     *)
(* sets quitting, and the exit code is 0.                                  *)
(***************************************************************************)
C4_ConfirmPrintsAndExitsZero ==
    [][OnlyReleased(state.confirm_button) =>
         /\ out' = Append(out, state'.selected + 1)
         /\ state'.quitting = 1
         /\ state'.exit_code = 0]_vars

(***************************************************************************)
(* C5: a release of the action (inaction) button ends the run with that    *)
(* role's exit code if action_show (inaction_show) is set, and changes     *)
(* nothing of the run state if the flag is clear.                          *)
(***************************************************************************)
C5_ActionInactionHonorShow ==
    [][/\ OnlyReleased(state.action_button) =>
            IF state.action_show
            THEN state'.quitting = 1 /\ state'.exit_code = ExitCodeActionButton
            ELSE state'.quitting = 0
       /\ OnlyReleased(state.inaction_button) =>
            IF state.inaction_show
            THEN state'.quitting = 1 /\ state'.exit_code = ExitCodeInactionButton
            ELSE state'.quitting = 0]_vars

C7_DocumentedExitCodes ==
    [][/\ OnlyReleased(state.cancel_button) => state'.exit_code = 2
       /\ OnlyReleased(state.action_button) => state'.exit_code = 4
       /\ OnlyReleased(state.inaction_button) => state'.exit_code = 5]_vars

(***************************************************************************)
(* C8: with quit_after_last_item, a RIGHT press at the last item sets      *)
(* quitting with exit code 0 whether no_wrap is set or not, and selected   *)
(* is not wrapped to 0.                                                    *)
(***************************************************************************)
C8_QuitAfterLastPrecedence ==
    [][(PressRight /\ state.quit_after_last_item /\ AtLast) =>
         /\ state'.quitting = 1
         /\ state'.exit_code = ExitCodeSuccess
         /\ state'.selected # 0]_vars

\* a RIGHT press has ended the run at the last item although no_wrap is set
C8_Witness ==
    /\ pc = "draw" /\ pad.polled /\ pad.released = {}
    /\ pad.left = "none" /\ pad.right = "pressed"
    /\ state.quit_after_last_item /\ state.no_wrap
    /\ state.item_count = MaxItems
    /\ state.selected = state.item_count
    /\ state.quitting = 1 /\ state.exit_code = ExitCodeSuccess

(***************************************************************************)
(* C9: with no_wrap and without quit_after_last_item, RIGHT at the last    *)
(* item and LEFT at item 0 leave selected unchanged and redraw clear.      *)
(***************************************************************************)
C9_NoWrapNoOp ==
    [][(state.no_wrap /\ ~state.quit_after_last_item) =>
         /\ (MoveRight /\ AtLast) =>
               state'.selected = state.selected /\ state'.redraw = 0
         /\ (MoveLeft /\ AtFirst) =>
               state'.selected = state.selected /\ state'.redraw = 0]_vars

\* a RIGHT press at the last of several items under no_wrap: nothing moved
C9_Witness ==
    /\ pc = "draw" /\ pad.polled /\ pad.released = {}
    /\ pad.left = "none" /\ pad.right = "pressed" /\ ~pad.up /\ ~pad.down
    /\ state.no_wrap /\ ~state.quit_after_last_item
    /\ state.item_count = MaxItems
    /\ state.selected = state.item_count - 1
    /\ state.redraw = 0 /\ state.quitting = 0

(***************************************************************************)
(* C10: without no_wrap and quit_after_last_item, a RIGHT press at the     *)
(* last item selects item 0, a LEFT press at item 0 selects the last item, *)
(* away from the ends RIGHT and LEFT change selected by +1 and -1, and     *)
(* each of these sets redraw.                                              *)
(***************************************************************************)
C10_WrapCyclic ==
    [][(~state.no_wrap /\ ~state.quit_after_last_item) =>
         /\ (PressRight /\ AtLast) =>
               state'.selected = 0 /\ state'.redraw = 1
         /\ (PressLeft /\ AtFirst) =>
               state'.selected = state.item_count - 1 /\ state'.redraw = 1
         /\ (MoveRight /\ ~AtLast) =>
               state'.selected = state.selected + 1 /\ state'.redraw = 1
         /\ (MoveLeft /\ ~AtFirst) =>
               state'.selected = state.selected - 1 /\ state'.redraw = 1]_vars

\* a LEFT press has wrapped from item 0 to the last of several items
C10_Witness ==
    /\ pc = "draw" /\ pad.polled /\ pad.released = {}
    /\ pad.left = "pressed"
    /\ ~state.no_wrap /\ ~state.quit_after_last_item
    /\ state.item_count = MaxItems
    /\ state.selected = state.item_count - 1
    /\ state.scroll_state.scroll_to_bottom
    /\ state.redraw = 1

(***************************************************************************)
(* The advance signal against a RIGHT press.                               *)
(***************************************************************************)
\* the frame of a fresh RIGHT press and nothing else
RightPressFrame == [NoInput EXCEPT !.right = "pressed"]

\* C11: wherever handle_input can consume the advance flag, the advance block
\* leaves the same selected item, quitting flag, exit code, redraw flag and
\* scroll state as a fresh RIGHT press taken from the same state
C11_AdvanceEqualsNext ==
    (pc = "input" /\ state.timeout_seconds >= 0) =>
        LET s1 == CheckImage(state, image_file)
            a == AdvanceItem(s1).state
            n == NavigateRight(s1, RightPressFrame)
        IN  /\ a.selected = n.selected
            /\ a.quitting = n.quitting
            /\ a.exit_code = n.exit_code
            /\ a.redraw = n.redraw
            /\ a.scroll_state = n.scroll_state

(***************************************************************************)
(* The signal runs: handle_input statement by statement around the advance *)
(* flag, with signal_handler able to run between any two statements.       *)
(***************************************************************************)
\* the signals main installs signal_handler for
Signals == {"SIGINT", "SIGTERM", "SIGUSR1"}

\* SIGUSR1 deliveries in one run
MaxSignals == 3

\* signal_handler: the exit code it ends the process with (-1: it returns)
\* and the flag it leaves
signal_handler_IntAsError(sig, flag) ==
    CASE sig = "SIGINT"  -> [exit |-> ExitCodeError, flag |-> flag]
      [] sig = "SIGTERM" -> [exit |-> ExitCodeSigterm, flag |-> flag]
      [] sig = "SIGUSR1" -> [exit |-> -1, flag |-> 1]
      [] OTHER           -> [exit |-> ExitCodeError, flag |-> flag]

signal_handler(sig, flag) ==
    CASE sig = "SIGINT"  -> [exit |-> ExitCodeKeyboardInterrupt, flag |-> flag]
      [] sig = "SIGTERM" -> [exit |-> ExitCodeSigterm, flag |-> flag]
      [] sig = "SIGUSR1" -> [exit |-> -1, flag |-> 1]
      [] OTHER           -> [exit |-> ExitCodeError, flag |-> flag]

\* a signal arrives; hand records it
DeliverSignal ==
    /\ Alive
    /\ \E sig \in Signals :
         LET r == signal_handler(sig, increment_item_list_index) IN
         /\ sig = "SIGUSR1" => hand.delivered < MaxSignals
         /\ increment_item_list_index' = r.flag
         /\ exit_status' = IF r.exit >= 0 THEN r.exit ELSE exit_status
         /\ pc' = IF r.exit >= 0 THEN "exited" ELSE pc
         /\ hand' = IF sig = "SIGUSR1"
                    THEN [hand EXCEPT !.signal = sig, !.delivered = @ + 1,
                                      !.pending = TRUE]
                    ELSE [hand EXCEPT !.signal = sig]
    /\ UNCHANGED <<state, spinner_active, pad, elapsed, image_file, out, doc, lay>>

\* the image check, the display-only return and the test of the flag
FlagTest ==
    /\ pc = "input"
    /\ state' = CheckImage(state, image_file)
    /\ pc' = IF state'.timeout_seconds < 0 THEN "draw"
             ELSE IF increment_item_list_index # 0 THEN "lock" ELSE "poll"
    /\ hand' = [hand EXCEPT !.cycle = 0]
    /\ UNCHANGED <<increment_item_list_index, spinner_active, pad, elapsed,
                   image_file, out, exit_status, doc, lay>>

\* pthread_mutex_lock: only main takes the lock
FlagLock ==
    /\ pc = "lock"
    /\ pc' = "clear"
    /\ UNCHANGED <<auxvars, state, increment_item_list_index, spinner_active, pad,
                   elapsed, image_file, out, exit_status>>

FlagClear_Keep ==
    /\ pc = "clear"
    /\ pc' = "advance"
    /\ UNCHANGED <<auxvars, state, increment_item_list_index, spinner_active, pad,
                   elapsed, image_file, out, exit_status>>

\* increment_item_list_index = 0
FlagClear ==
    /\ pc = "clear"
    /\ increment_item_list_index' = 0
    /\ pc' = "advance"
    /\ UNCHANGED <<auxvars, state, spinner_active, pad, elapsed, image_file, out,
                   exit_status>>

\* the rest of the advance block, to its unlock and return
FlagAdvance ==
    /\ pc = "advance"
    /\ LET a == AdvanceItem(state) IN
         /\ state' = a.state
         /\ pc' = IF a.should_return THEN "draw" ELSE "poll"
    /\ hand' = [hand EXCEPT !.applied = @ + 1, !.cycle = @ + 1, !.pending = FALSE]
    /\ UNCHANGED <<increment_item_list_index, spinner_active, pad, elapsed,
                   image_file, out, exit_status, doc, lay>>

\* PAD_poll and the button and direction blocks
PollPadOn(F) ==
    /\ pc = "poll"
    /\ \E f \in F :
         LET r == HandlePad(state, f) IN
         /\ state' = r.state
         /\ pad' = [f EXCEPT !.polled = TRUE]
         /\ out' = out \o r.printed
    /\ pc' = "draw"
    /\ UNCHANGED <<auxvars, increment_item_list_index, spinner_active, elapsed,
                   image_file, exit_status>>

\* frames of the signal runs: nothing, a fresh RIGHT press, or the release of B
SignalFrames ==
    {f \in Frames : /\ ~f.up /\ ~f.down /\ f.left = "none"
                    /\ f.right # "repeated" /\ f.released \subseteq {"B"}}

PollPadSignal == PollPadOn(SignalFrames)

\* the signal runs: interactive and timed runs of small catalogs
InitSignal ==
    /\ \E n \in 1..2, t \in {0, TimeoutT}, q \in BOOLEAN, w \in BOOLEAN :
         state = InitState(n, NavBinding, NavShows, t, q, w, FALSE, 0)
    /\ spinner_active = FALSE
    /\ InitRest

\* the steps of the main thread
MainSignal ==
    \/ FlagTest
    \/ FlagLock
    \/ FlagClear
    \/ FlagAdvance
    \/ PollPadSignal
    \/ DrawScreen
    \/ DrawScreenInvalid
    \/ GfxSync
    \/ TimeoutCheck
    \/ MainReturn

NextSignal ==
    \/ FlagTest
    \/ FlagLock
    \/ FlagClear
    \/ FlagAdvance
    \/ PollPadSignal
    \/ DrawScreen
    \/ DrawScreenInvalid
    \/ GfxSync
    \/ TimeoutCheck
    \/ MainReturn
    \/ DeliverSignal

\* main is the only thread and never blocks for longer than a frame: it
\* always takes its next step; signals arrive or not
SpecSignal == InitSignal /\ [][NextSignal]_vars /\ WF_vars(MainSignal)

\* the loop is still running
Running == Alive /\ pc # "destruct" /\ state.quitting = 0

\* C12: with timeout_seconds >= 0, under every interleaving of SIGUSR1 with
\* the test, lock, clear and advance statements, the applied advances never
\* exceed the deliveries, one poll cycle applies at most one advance, and
\* while the loop runs every delivery is followed by an applied advance
C12_AdvanceHandoff ==
    /\ [](hand.applied <= hand.delivered)
    /\ [](hand.cycle <= 1)
    /\ ((hand.pending /\ Running) ~> ~(hand.pending /\ Running))

\* two deliveries were merged into one applied advance and nothing is pending
C12_Witness ==
    /\ hand.delivered = 2
    /\ hand.applied = 1
    /\ ~hand.pending
    /\ increment_item_list_index = 0
    /\ pc = "poll"


\* the signal sig is being delivered in this step
Delivered(sig) == hand.signal # sig /\ hand'.signal = sig

\* the process is gone: signal_handler called exit
Exited(code) ==
    /\ pc' = "exited"
    /\ exit_status' = code
    /\ UNCHANGED <<state, increment_item_list_index, pad, out>>

\* C16: SIGINT can arrive at every point of the run, also between the loop
\* setting quitting and main returning, and ends the process at once with
\* 130; SIGTERM likewise with 143; neither goes through handle_input or
\* draw_screen, and nothing runs after the exit
C16_SigIntSigTerm ==
    /\ [][Delivered("SIGINT") => Exited(ExitCodeKeyboardInterrupt)]_vars
    /\ [][Delivered("SIGTERM") => Exited(ExitCodeSigterm)]_vars
    /\ [][pc # "exited"]_vars
    /\ [](Alive => ENABLED (DeliverSignal /\ Delivered("SIGINT")))
    /\ [](Alive => ENABLED (DeliverSignal /\ Delivered("SIGTERM")))

\* SIGINT arrived after the release of the cancel button had set quitting
\* and before main returned: the exit status is 130, not the cancel code
C16_Witness ==
    /\ pc = "exited"
    /\ hand.signal = "SIGINT"
    /\ exit_status = ExitCodeKeyboardInterrupt
    /\ state.quitting = 1
    /\ state.exit_code = ExitCodeCancelButton


(***************************************************************************)
(* The display-only mode and the timeout.                                  *)
(***************************************************************************)
DisplayOnly == state.timeout_seconds < 0

\* C13: with timeout_seconds < 0 no frame of button releases, presses or
\* repeats changes the selected item, the quitting flag or the exit code,
\* the scroll state changes only when draw_screen recomputes it, and the
\* loop never ends on its own: only a signal ends the run
C13_DisplayOnlyIgnoresButtons ==
    /\ [][DisplayOnly => /\ state'.selected = state.selected
                         /\ state'.quitting = state.quitting
                         /\ state'.exit_code = state.exit_code]_vars
    /\ [][(DisplayOnly /\ pc # "draw") =>
              state'.scroll_state = state.scroll_state]_vars
    /\ [](DisplayOnly => state.quitting = 0 /\ pc \notin {"destruct", "done"})

\* handle_input returned before PAD_poll in a frame with a released button,
\* after the first draw
C13_Witness ==
    /\ DisplayOnly
    /\ pc = "draw"
    /\ ~pad.polled
    /\ pad.released = {"B"}
    /\ state.redraw = 0
    /\ state.quitting = 0
    /\ state.selected = 0


\* handle_input ran from its first statement to its return
HandleInputStep == pc = "input" /\ pc' = "draw"

\* C14: in display-only mode a pending advance flag is consumed by the next
\* call of handle_input, which moves the selection as the advance block does
C14_DisplayOnlyAdvance ==
    [][(HandleInputStep /\ DisplayOnly /\ increment_item_list_index # 0) =>
           /\ increment_item_list_index' = 0
           /\ state'.selected =
                  AdvanceItem(CheckImage(state, image_file)).state.selected]_vars

\* the timeout block ran
TimeoutStep == pc = "timeout" /\ pc' \in {"input", "destruct"}

\* the timeout is configured and the clock reading t is past it
Due(t) == state.timeout_seconds > 0 /\ t >= state.timeout_seconds

\* C15: the timeout block sets quitting with exit code 124 in the first
\* iteration whose clock reading is at least timeout_seconds whole seconds
\* after start_time, and leaves quitting and the exit code alone in every
\* earlier iteration and whenever timeout_seconds <= 0
C15_TimeoutWhenDue ==
    /\ [][TimeoutStep =>
            IF Due(elapsed')
            THEN state'.quitting = 1 /\ state'.exit_code = ExitCodeTimeout
            ELSE /\ state'.quitting = state.quitting
                 /\ state'.exit_code = state.exit_code]_vars
    /\ [](state.exit_code = ExitCodeTimeout => Due(elapsed))
    /\ [](Due(elapsed) => state.quitting = 1 /\ state.exit_code = ExitCodeTimeout)

\* the loop ended by timeout at the reading TimeoutT, without any input
C15_Witness ==
    /\ pc = "destruct"
    /\ state.timeout_seconds = TimeoutT
    /\ elapsed = TimeoutT
    /\ state.quitting = 1
    /\ state.exit_code = ExitCodeTimeout
    /\ state.selected = 0
    /\ out = << >>


(***************************************************************************)
(* The argument runs: parse_arguments on every button assignment.          *)
(***************************************************************************)
\* every assignment of the four roles to A, B, X, Y or nothing
AllBindings ==
    [action_button : Face \cup {""}, confirm_button : Face \cup {""},
     cancel_button : Face \cup {""}, inaction_button : Face \cup {""}]

InitArgs ==
    /\ \E b \in AllBindings :
         state = InitState(1, b, NavShows, 0, FALSE, FALSE, FALSE, 0)
    /\ spinner_active = FALSE
    /\ hand = NoHand
    /\ doc = NoDoc
    /\ lay = NoLay
    /\ image_file = FALSE
    /\ increment_item_list_index = 0
    /\ pad = NoInput
    /\ pc = "args"
    /\ elapsed = 0
    /\ out = << >>
    /\ exit_status = -1

\* main calls parse_arguments and returns ExitCodeError when it fails
ParseArguments ==
    /\ pc = "args"
    /\ IF ButtonsValid(state)
       THEN pc' = "input" /\ exit_status' = exit_status
       ELSE pc' = "done" /\ exit_status' = ExitCodeError
    /\ UNCHANGED <<auxvars, state, increment_item_list_index, spinner_active, pad,
                   elapsed, image_file, out>>

NextArgs == ParseArguments

SpecArgs == InitArgs /\ [][NextArgs]_vars

\* the hardware button b is bound to two or more roles
Shared(b) == Cardinality(RolesOn(state, b)) >= 2

\* C17: for every assignment of the four roles to A, B, X, Y or nothing,
\* parse_arguments fails, main exits with 1 and the loop is never entered,
\* exactly when some hardware button is bound to two or more roles; roles
\* bound to nothing never count as shared
C17_ButtonUniqueness ==
    pc # "args" =>
        /\ pc \in {"done", "input"}
        /\ (pc = "done") = (\E b \in Face : Shared(b))
        /\ exit_status = IF pc = "done" THEN ExitCodeError ELSE -1

\* A is both the action and the inaction button, confirm and cancel are
\* bound to nothing: the load failed
C17_Witness ==
    /\ pc = "done"
    /\ exit_status = ExitCodeError
    /\ state.action_button = "A"
    /\ state.inaction_button = "A"
    /\ state.confirm_button = ""
    /\ state.cancel_button = ""


(***************************************************************************)
(* The layout runs: draw_screen, from the copy of the text to the scroll   *)
(* recompute, on every short text for a few available widths, line         *)
(* spacings and headers.                                                   *)
(***************************************************************************)
MaxTextLen == 5

\* the characters of the texts: two letters of different widths, the n of
\* the escape, and the white space and escape characters
Alphabet == {"a", "W", "n", SP, NL, BS, TAB}

Texts == UNION {[1..k -> Alphabet] : k \in 0..MaxTextLen}

\* FIXED_WIDTH - 2 * message_padding of a narrow and of a medium screen
NarrowWidth == 2 * LetterWidth + LetterWidth \div 2

MediumWidth == 4 * LetterWidth + LetterWidth \div 2

\* the screens and items of the layout runs: the narrow screen with a large
\* line spacing, and with none under the countdown; the medium screen with
\* the default line spacing under the countdown; the modelled screen
LayoutConfigs ==
    {[avail |-> NarrowWidth, line_spacing |-> 4 * PADDING, show_time_left |-> FALSE],
     [avail |-> NarrowWidth, line_spacing |-> 0, show_time_left |-> TRUE],
     [avail |-> MediumWidth, line_spacing |-> PADDING, show_time_left |-> TRUE],
     [avail |-> AvailableWidth, line_spacing |-> PADDING, show_time_left |-> FALSE]}

InitLayout ==
    /\ \E t \in Texts, c \in LayoutConfigs :
         /\ lay = [NoLay EXCEPT !.text = t, !.avail = c.avail,
                                !.line_spacing = c.line_spacing,
                                !.max_messages = MAX_MESSAGES, !.max_words = MAX_WORDS]
         /\ state = [InitState(1, NavBinding, NavShows,
                               IF c.show_time_left THEN TimeoutT ELSE 0,
                               FALSE, FALSE, c.show_time_left, 0)
                        EXCEPT !.items[0].text = t,
                               !.items[0].line_spacing = c.line_spacing]
    /\ spinner_active = FALSE
    /\ hand = NoHand
    /\ doc = NoDoc
    /\ image_file = FALSE
    /\ increment_item_list_index = 0
    /\ pad = NoInput
    /\ pc = "layout"
    /\ elapsed = 0
    /\ out = << >>
    /\ exit_status = -1

\* draw_screen from the copy of the text to the scroll recompute (words and
\* r are bound through singleton sets so that each is computed once)
LayoutText ==
    /\ pc = "layout"
    /\ \E words \in {SplitWords(lay.text)} :
       \E r \in {PackWordsIn(NoLines, words, lay.avail)} :
       LET word_height == IF words = << >> THEN 0 ELSE FontH
       IN  /\ lay' = [lay EXCEPT !.done = TRUE, !.messages = r.messages,
                                 !.message_count = r.message_count,
                                 !.current_message_index = r.current_message_index,
                                 !.word_count = Len(words),
                                 !.word_height = word_height,
                                 !.stopped = r.stopped,
                                 !.rendered = RenderedIndices(r.message_count)]
           /\ state' = draw_screen(state, MessagesHeight(r.current_message_index,
                                                         word_height, lay.line_spacing))
    /\ pc' = "laid"
    /\ UNCHANGED <<increment_item_list_index, spinner_active, pad, elapsed,
                   image_file, out, exit_status, hand, doc>>

NextLayout == LayoutText

SpecLayout == InitLayout /\ [][NextLayout]_vars

\* the measured width of a line: its words and one reference glyph per gap
RECURSIVE SumWidths(_)
SumWidths(ws) == IF ws = << >> THEN 0 ELSE TextWidth(ws[1]) + SumWidths(Tail(ws))

MeasuredWidth(ws) ==
    IF ws = << >> THEN 0 ELSE SumWidths(ws) + (Len(ws) - 1) * LetterWidth

\* C18: every packed line measures at most the available width, except a
\* line of one single word that is itself wider than the available width
C18_WrapCorrectness ==
    lay.done =>
        \A k \in 1..Len(lay.messages) :
            LET ws == lay.messages[k].words IN
            \/ MeasuredWidth(ws) <= lay.avail
            \/ Len(ws) = 1 /\ TextWidth(ws[1]) > lay.avail

\* "a W a" at the medium width: the third word would overflow the first
\* line and wraps
C18_Witness ==
    /\ lay.done
    /\ lay.text = <<"a", SP, "W", SP, "a">>
    /\ lay.avail < AvailableWidth
    /\ Len(lay.messages) = 2
    /\ lay.messages[1].words = << <<"a">>, <<"W">> >>
    /\ lay.messages[2].words = << <<"a">> >>
    /\ MeasuredWidth(lay.messages[1].words) + LetterWidth + TextWidth(<<"a">>) > lay.avail

\* the paragraphs of a text: what lies between hard breaks, a hard break
\* being a line feed or the escape made of a backslash and n
RECURSIVE ParagraphsOf(_, _)
ParagraphsOf(str, cur) ==
    IF str = << >> THEN <<cur>>
    ELSE IF str[1] = NL
         THEN <<cur>> \o ParagraphsOf(Tail(str), << >>)
    ELSE IF str[1] = BS /\ Len(str) >= 2 /\ str[2] = "n"
         THEN <<cur>> \o ParagraphsOf(SubSeq(str, 3, Len(str)), << >>)
    ELSE ParagraphsOf(Tail(str), Append(cur, str[1]))

\* the words of a paragraph: its pieces between spaces, without the tabs
\* around them, the empty ones left out
RECURSIVE Pieces(_, _)
Pieces(str, cur) ==
    IF str = << >> THEN <<cur>>
    ELSE IF str[1] = SP THEN <<cur>> \o Pieces(Tail(str), << >>)
    ELSE Pieces(Tail(str), Append(cur, str[1]))

RECURSIVE NoTabs(_)
NoTabs(s) ==
    IF s # << >> /\ s[1] = TAB THEN NoTabs(Tail(s))
    ELSE IF s # << >> /\ s[Len(s)] = TAB THEN NoTabs(SubSeq(s, 1, Len(s) - 1))
    ELSE s

RECURSIVE NonEmpty(_)
NonEmpty(ss) ==
    IF ss = << >> THEN << >>
    ELSE (IF ss[1] = << >> THEN << >> ELSE <<ss[1]>>) \o NonEmpty(Tail(ss))

WordsIn(par) ==
    LET ps == Pieces(par, << >>) IN
    NonEmpty([k \in 1..Len(ps) |-> NoTabs(ps[k])])

\* the number of words before paragraph i, and before line k
RECURSIVE WordsBefore(_, _)
WordsBefore(pars, i) ==
    IF i <= 1 THEN 0 ELSE Len(WordsIn(pars[i - 1])) + WordsBefore(pars, i - 1)

RECURSIVE WordsBeforeLine(_, _)
WordsBeforeLine(msgs, k) ==
    IF k <= 1 THEN 0 ELSE Len(msgs[k - 1].words) + WordsBeforeLine(msgs, k - 1)

\* the paragraphs that follow a hard break and have a word
AfterBreak(pars) == {i \in 2..Len(pars) : WordsIn(pars[i]) # << >>}

\* every paragraph is empty or one word that fits in the available width
SingleShortWords(pars, avail) ==
    \A i \in 1..Len(pars) :
        \/ pars[i] = << >>
        \/ Len(WordsIn(pars[i])) = 1 /\ TextWidth(WordsIn(pars[i])[1]) <= avail

\* C19: the first word after a hard break, a line feed or the escape, is
\* the first word of a line even where it would fit on the line before; a
\* text of k single short words separated by hard breaks is laid out as
\* exactly k lines, one word each, in order
C19_BreakFidelity ==
    lay.done =>
        LET pars == ParagraphsOf(lay.text, << >>)
            words == NonEmpty([i \in 1..Len(pars) |->
                         IF WordsIn(pars[i]) = << >> THEN << >> ELSE WordsIn(pars[i])[1]])
        IN  /\ \A i \in AfterBreak(pars) :
                  \E k \in 1..Len(lay.messages) :
                      /\ lay.messages[k].words # << >>
                      /\ lay.messages[k].words[1] = WordsIn(pars[i])[1]
                      /\ WordsBeforeLine(lay.messages, k) = WordsBefore(pars, i)
            /\ (SingleShortWords(pars, lay.avail) /\ words # << >>) =>
                  /\ Len(lay.messages) = Len(words)
                  /\ \A k \in 1..Len(words) : lay.messages[k].words = <<words[k]>>

\* "a", the escape, "W" on the wide screen: two lines although both words
\* fit on one
C19_Witness ==
    /\ lay.done
    /\ lay.text = <<"a", BS, "n", "W">>
    /\ lay.avail = AvailableWidth
    /\ Len(lay.messages) = 2
    /\ lay.messages[1].words = << <<"a">> >>
    /\ lay.messages[2].words = << <<"W">> >>


(***************************************************************************)
(* The load runs: ItemsState_New on small documents, and the catalog of    *)
(* one item built from --message.  A string member that the document does  *)
(* not have is "absent", one that is not a JSON string is "nonstring", a   *)
(* string outside the literals the code knows is "bad"; a numeric member   *)
(* or option is << >> when it is not given and <<v>> when its value is v.  *)
(***************************************************************************)
MaxDocItems == 2

\* an item with a text and nothing else
PlainItem == [object |-> TRUE, text |-> "text", show_pill |-> "absent",
              alignment |-> "absent", horizontal_alignment |-> "absent",
              line_spacing |-> << >>]

\* the items of the documents: the plain item and items that differ from it
\* in one member
DocItems ==
    {PlainItem, [PlainItem EXCEPT !.object = FALSE]}
    \cup {[PlainItem EXCEPT !.text = v] : v \in {"absent", "nonstring"}}
    \cup {[PlainItem EXCEPT !.show_pill = v] : v \in {"true", "bad"}}
    \cup {[PlainItem EXCEPT !.alignment = v] : v \in {"top", "nonstring", "bad"}}
    \cup {[PlainItem EXCEPT !.horizontal_alignment = v] : v \in {"left", "nonstring", "bad"}}
    \cup {[PlainItem EXCEPT !.line_spacing = <<v>>] : v \in {-1, 0}}

\* the values of the selected member: whole numbers within the range of int
DocSelected == {<< >>} \cup {<<v>> : v \in -2..(MaxDocItems + 2)}

Docs ==
    {[form |-> "file", items |-> its, selected |-> sel, line_spacing |-> << >>,
      loaded |-> << >>] :
        its \in UNION {[1..n -> DocItems] : n \in 0..MaxDocItems},
        sel \in DocSelected}

\* the command lines with --message: --line-spacing not given, or any small
\* number
Messages ==
    {[NoDoc EXCEPT !.line_spacing = ls] : ls \in {<< >>} \cup {<<v>> : v \in -2..2}}

ItemValid_AnyHorizontal(it) ==
    /\ it.object
    /\ it.text \notin {"absent", "nonstring"}
    /\ it.show_pill \in {"absent", "true", "false"}
    /\ it.alignment \in {"absent", "nonstring", "top", "bottom", "middle"}
    /\ (it.line_spacing # << >> => it.line_spacing[1] >= 0)

\* one turn of the item loop: FALSE is the return NULL
ItemValid(it) ==
    /\ it.object
    /\ it.text \notin {"absent", "nonstring"}
    /\ it.show_pill \in {"absent", "true", "false"}
    /\ it.alignment \in {"absent", "nonstring", "top", "bottom", "middle"}
    /\ it.horizontal_alignment \in {"absent", "nonstring", "left", "right", "center"}
    /\ (it.line_spacing # << >> => it.line_spacing[1] >= 0)

\* struct Item as the item loop fills it
LoadItem(it) ==
    [text |-> it.text,
     show_pill |-> it.show_pill = "true",
     alignment |-> IF it.alignment \in {"absent", "nonstring"} THEN "middle"
                   ELSE it.alignment,
     horizontal_alignment |->
         IF it.horizontal_alignment \in {"absent", "nonstring"} THEN "center"
         ELSE it.horizontal_alignment,
     line_spacing |-> IF it.line_spacing = << >> THEN PADDING ELSE it.line_spacing[1]]

ItemsState_New_NoUpperClamp(d) ==
    LET item_count == Len(d.items)
        selected == IF d.selected = << >> THEN 0
                    ELSE IF d.selected[1] < 0 THEN 0
                    ELSE d.selected[1]
    IN  IF item_count = 0 \/ \E i \in 1..item_count : ~ItemValid(d.items[i])
        THEN [ok |-> FALSE, item_count |-> 0, selected |-> 0, items |-> << >>]
        ELSE [ok |-> TRUE, item_count |-> item_count, selected |-> selected,
              items |-> [i \in 1..item_count |-> LoadItem(d.items[i])]]

\* ItemsState_New: ok is FALSE for the return NULL
ItemsState_New(d) ==
    LET item_count == Len(d.items)
        selected == IF d.selected = << >> THEN 0
                    ELSE IF d.selected[1] < 0 THEN 0
                    ELSE IF d.selected[1] >= item_count THEN item_count - 1
                    ELSE d.selected[1]
    IN  IF item_count = 0 \/ \E i \in 1..item_count : ~ItemValid(d.items[i])
        THEN [ok |-> FALSE, item_count |-> 0, selected |-> 0, items |-> << >>]
        ELSE [ok |-> TRUE, item_count |-> item_count, selected |-> selected,
              items |-> [i \in 1..item_count |-> LoadItem(d.items[i])]]

\* parse_arguments for --message: a catalog of one item whose line spacing
\* is atoi of --line-spacing, PADDING when the option is not given
MessageItems(d) ==
    [ok |-> TRUE, item_count |-> 1, selected |-> 0,
     items |-> <<[text |-> "text", show_pill |-> FALSE, alignment |-> "middle",
                  horizontal_alignment |-> "center",
                  line_spacing |-> IF d.line_spacing = << >> THEN PADDING
                                   ELSE d.line_spacing[1]]>>]

InitLoad ==
    /\ doc \in Docs \cup Messages
    /\ state = InitState(0, NavBinding, NavShows, 0, FALSE, FALSE, FALSE, 0)
    /\ spinner_active = FALSE
    /\ hand = NoHand
    /\ lay = NoLay
    /\ image_file = FALSE
    /\ increment_item_list_index = 0
    /\ pad = NoInput
    /\ pc = "load"
    /\ elapsed = 0
    /\ out = << >>
    /\ exit_status = -1

\* parse_arguments builds the catalog from --message, or calls
\* ItemsState_New for --file; main returns ExitCodeError when that fails
LoadDocument ==
    /\ pc = "load"
    /\ LET r == IF doc.form = "message" THEN MessageItems(doc)
                ELSE ItemsState_New(doc) IN
         IF r.ok
         THEN /\ state' = [state EXCEPT !.item_count = r.item_count,
                                        !.selected = r.selected,
                                        !.image_exists =
                                            [i \in 0..(r.item_count - 1) |-> FALSE]]
              /\ doc' = [doc EXCEPT !.loaded = r.items]
              /\ pc' = "input"
              /\ exit_status' = exit_status
         ELSE /\ pc' = "done"
              /\ exit_status' = ExitCodeError
              /\ UNCHANGED <<state, doc>>
    /\ UNCHANGED <<increment_item_list_index, spinner_active, pad, elapsed,
                   image_file, out, hand, lay>>

NextLoad == LoadDocument

SpecLoad == InitLoad /\ [][NextLoad]_vars

\* v brought into 0..(n - 1)
ClampIndex(v, n) == IF v < 0 THEN 0 ELSE IF v > n - 1 THEN n - 1 ELSE v

\* C20: after a successful load item_count is at least 1 and selected is
\* the document's numeric selected member (0 when it has none) clamped into
\* [0, item_count - 1], whether that number is negative, in range or at
\* least item_count; a document whose items array is empty fails to load
C20_LoadedCursor ==
    (pc # "load" /\ doc.form = "file") =>
        /\ pc = "input" =>
              /\ state.item_count >= 1
              /\ state.item_count = Len(doc.items)
              /\ state.selected =
                     ClampIndex(IF doc.selected = << >> THEN 0 ELSE doc.selected[1],
                                state.item_count)
        /\ doc.items = << >> => pc = "done" /\ exit_status = ExitCodeError

\* a document of MaxDocItems plain items whose selected member is past the
\* end: the last item is selected
C20_Witness ==
    /\ pc = "input"
    /\ Len(doc.items) = MaxDocItems
    /\ doc.selected = <<MaxDocItems + 2>>
    /\ state.item_count = MaxDocItems
    /\ state.selected = MaxDocItems - 1


\* the element lacks a string text, or has an alignment or a
\* horizontal_alignment string outside the literals
Malformed(it) ==
    \/ it.text \in {"absent", "nonstring"}
    \/ it.alignment = "bad"
    \/ it.horizontal_alignment = "bad"

\* C21: a document with an element that lacks a string text, or whose
\* alignment or horizontal_alignment is a string outside its literals, fails
\* to load as a whole: main exits with 1 without entering the loop and no
\* catalog is built; a catalog that is built has every element of the
\* document
C21_AllOrNothing ==
    (pc # "load" /\ doc.form = "file") =>
        /\ (\E i \in 1..Len(doc.items) : Malformed(doc.items[i])) =>
              /\ pc = "done"
              /\ exit_status = ExitCodeError
              /\ doc.loaded = << >>
              /\ state.item_count = 0
        /\ pc = "input" =>
              /\ Len(doc.loaded) = Len(doc.items)
              /\ state.item_count = Len(doc.items)
              /\ \A i \in 1..Len(doc.items) : doc.loaded[i].text = doc.items[i].text

\* a plain item followed by an item with an unknown horizontal_alignment:
\* no catalog of the first item alone
C21_Witness ==
    /\ pc = "done"
    /\ exit_status = ExitCodeError
    /\ Len(doc.items) = 2
    /\ doc.items[1] = PlainItem
    /\ doc.items[2] = [PlainItem EXCEPT !.horizontal_alignment = "bad"]
    /\ doc.loaded = << >>

\* C22: every item of a catalog that was built has a line spacing of at
\* least 0, whether it came from the document or from --line-spacing
C22_LineSpacingNotNegative ==
    pc = "input" => \A i \in 1..Len(doc.loaded) : doc.loaded[i].line_spacing >= 0


\* the lazy check of this handle_input call finds the image of the selected
\* item
ImageFound ==
    /\ HandleInputStep
    /\ ItemHasImage(state.selected)
    /\ ~state.image_exists[state.selected]
    /\ image_file

\* C23: the redraw that the lazy image check requests is not lost: the
\* handle_input call in which the check finds the file of the selected item
\* ends with the frame flagged for redraw, whatever the input of that frame
\* (or it ends the run)
C23_ImageRedrawKept ==
    [][ImageFound => (state'.redraw = 1 \/ state'.quitting = 1)]_vars


\* C24: a handle_input call that changes the selected index (LEFT, RIGHT, a
\* wrap or a consumed advance request) and leaves it on an item ends with
\* scroll_position = 0, the jump to the bottom pending and the frame flagged
\* for redraw
C24_ItemChangeResetsScroll ==
    [][(HandleInputStep /\ state'.selected # state.selected /\ ValidIndex(state'))
          => /\ state'.scroll_state.scroll_position = 0
             /\ state'.scroll_state.scroll_to_bottom
             /\ state'.redraw = 1]_vars

\* the main loop calls draw_screen on an item of the catalog
DrawStep ==
    /\ pc = "draw"
    /\ pc' = "timeout"
    /\ (state.redraw # 0 \/ spinner_active)
    /\ ValidIndex(state)

\* C25: the draw that recomputes the scroll state consumes the pending jump
\* to the bottom: after it the flag is false, with scroll_position at
\* content_height - viewport_height when the content needs scrolling
C25_JumpConsumed ==
    [][(DrawStep /\ state.scroll_state.scroll_to_bottom)
          => /\ ~state'.scroll_state.scroll_to_bottom
             /\ state'.scroll_state.needs_scroll =>
                  state'.scroll_state.scroll_position =
                      state'.scroll_state.content_height
                          - state'.scroll_state.viewport_height]_vars


\* a handle_input call whose only input is UP or DOWN: no image found, no
\* advance request, input not disabled
ScrollOnly ==
    /\ HandleInputStep
    /\ state.timeout_seconds >= 0
    /\ increment_item_list_index = 0
    /\ ~ImageFound
    /\ pad'.up \/ pad'.down
    /\ pad'.left = "none" /\ pad'.right = "none" /\ pad'.released = {}

MaxScroll(st) == st.scroll_state.content_height - st.scroll_state.viewport_height

\* C26: when the content needs scrolling, UP moves scroll_position by the
\* step toward 0 and DOWN by the step toward content_height -
\* viewport_height, the result stays within 0 .. content_height -
\* viewport_height, and the pending jump to the bottom is cleared
C26_ScrollStep ==
    [][(ScrollOnly /\ state.scroll_state.needs_scroll)
          => LET pos == state.scroll_state.scroll_position
                 new == state'.scroll_state.scroll_position
             IN  /\ pad'.up =>
                       new = (IF pos - ScrollStep < 0 THEN 0 ELSE pos - ScrollStep)
                 /\ (~pad'.up /\ pad'.down) =>
                       new = (IF pos + ScrollStep > MaxScroll(state)
                              THEN MaxScroll(state) ELSE pos + ScrollStep)
                 /\ new >= 0
                 /\ new <= MaxScroll(state)
                 /\ ~state'.scroll_state.scroll_to_bottom]_vars

\* C27: UP or DOWN that cannot move the view changes neither
\* scroll_position nor the redraw flag: when the content does not need
\* scrolling, and when the position is already at the end asked for
C27_ScrollNoOp ==
    [][(ScrollOnly
        /\ \/ ~state.scroll_state.needs_scroll
           \/ pad'.up /\ state.scroll_state.scroll_position = 0
           \/ ~pad'.up /\ state.scroll_state.scroll_position = MaxScroll(state))
          => /\ state'.scroll_state.scroll_position = state.scroll_state.scroll_position
             /\ state'.redraw = state.redraw]_vars


\* the lines of a layout: the entries of messages, the empty first entry
\* that a blank first paragraph leaves included; none when the text has no
\* word at all
LineCount ==
    IF \A k \in 1..Len(lay.messages) : lay.messages[k].words = << >>
    THEN 0 ELSE Len(lay.messages)

\* the text is one paragraph whose words fit the available width together
FitsOneLine ==
    LET pars == ParagraphsOf(lay.text, << >>) IN
    /\ Len(pars) = 1
    /\ WordsIn(pars[1]) # << >>
    /\ MeasuredWidth(WordsIn(pars[1])) <= lay.avail

\* C28: after the recompute content_height is lineCount line heights plus
\* one scaled line spacing between consecutive lines, viewport_height is the
\* screen height less the padding above and below and the header, and
\* needs_scroll says that the content is higher than the viewport; a text
\* that fits on one line has one line, the height of one line and no
\* scrolling
C28_ScrollMetrics ==
    lay.done =>
        LET sc == state.scroll_state
            header == IF state.show_time_left THEN SmallFontH + SCALE1(PADDING) ELSE 0
        IN  /\ sc.content_height =
                   LineCount * FontH
                   + (IF LineCount > 1 THEN LineCount - 1 ELSE 0) * SCALE1(lay.line_spacing)
            /\ sc.viewport_height = ScreenH - 2 * SCALE1(PADDING) - header
            /\ sc.needs_scroll <=> (sc.content_height > sc.viewport_height)
            /\ FitsOneLine =>
                   /\ LineCount = 1
                   /\ sc.content_height = FontH
                   /\ ~sc.needs_scroll

\* "a a a" on the narrow screen with the large line spacing: three lines
\* that need scrolling
C28_Witness ==
    /\ lay.done
    /\ lay.text = <<"a", SP, "a", SP, "a">>
    /\ lay.avail = NarrowWidth
    /\ lay.line_spacing = 4 * PADDING
    /\ LineCount = 3
    /\ state.scroll_state.content_height = 3 * FontH + 2 * SCALE1(4 * PADDING)
    /\ state.scroll_state.needs_scroll


(***************************************************************************)
(* The bounded runs: draw_screen with small arrays, so that short texts    *)
(* fill them.                                                              *)
(***************************************************************************)
SmallMessages == 2
SmallWords == 2

\* the screens and array sizes of the bounded runs: a small messages array
\* on the narrow and on the modelled screen, a small words array
Limits ==
    {[avail |-> NarrowWidth, max_messages |-> SmallMessages, max_words |-> MAX_WORDS],
     [avail |-> AvailableWidth, max_messages |-> SmallMessages, max_words |-> MAX_WORDS],
     [avail |-> NarrowWidth, max_messages |-> MAX_MESSAGES, max_words |-> SmallWords]}

InitLimits ==
    /\ \E t \in Texts, l \in Limits :
         /\ lay = [NoLay EXCEPT !.text = t, !.avail = l.avail,
                                !.line_spacing = PADDING,
                                !.max_messages = l.max_messages,
                                !.max_words = l.max_words]
         /\ state = [InitState(1, NavBinding, NavShows, 0, FALSE, FALSE, FALSE, 0)
                        EXCEPT !.items[0].text = t]
    /\ spinner_active = FALSE
    /\ hand = NoHand
    /\ doc = NoDoc
    /\ image_file = FALSE
    /\ increment_item_list_index = 0
    /\ pad = NoInput
    /\ pc = "limits"
    /\ elapsed = 0
    /\ out = << >>
    /\ exit_status = -1

\* draw_screen from the copy of the text to the render loop, with arrays
\* of max_words words and max_messages lines
LayoutLimited ==
    /\ pc = "limits"
    /\ \E words \in {SplitWordsLim(lay.text, lay.max_messages, lay.max_words)} :
       \E r \in {PackWordsLim(NoLines, words, lay.avail, lay.max_messages)} :
       LET word_height == IF words = << >> THEN 0 ELSE FontH
       IN  /\ lay' = [lay EXCEPT !.done = TRUE, !.messages = r.messages,
                                 !.message_count = r.message_count,
                                 !.current_message_index = r.current_message_index,
                                 !.word_count = Len(words),
                                 !.word_height = word_height,
                                 !.stopped = r.stopped,
                                 !.rendered = RenderedIndices(r.message_count)]
           /\ state' = draw_screen(state, MessagesHeight(r.current_message_index,
                                                         word_height, lay.line_spacing))
    /\ pc' = "limited"
    /\ UNCHANGED <<increment_item_list_index, spinner_active, pad, elapsed,
                   image_file, out, exit_status, hand, doc>>

NextLimits == LayoutLimited

SpecLimits == InitLimits /\ [][NextLimits]_vars

\* all the words of a text, in order
RECURSIVE WordsOfPars(_)
WordsOfPars(pars) ==
    IF pars = << >> THEN << >> ELSE WordsIn(pars[1]) \o WordsOfPars(Tail(pars))

\* the words of the packed lines, in order
RECURSIVE WordsOfMessages(_)
WordsOfMessages(msgs) ==
    IF msgs = << >> THEN << >> ELSE msgs[1].words \o WordsOfMessages(Tail(msgs))

C30_RedrawOncePerSecond ==
    [][(TimeoutStep /\ state.show_time_left /\ state.timeout_seconds > 0
        /\ elapsed' = elapsed /\ state.redraw = 0)
          => state'.redraw = 0]_vars


(***************************************************************************)
(* The role runs: every valid button assignment, frames of face button     *)
(* releases only.                                                          *)
(***************************************************************************)
ReleaseFrames == {f \in AllFrames : NoDirection(f)}

HandleInputReleases == HandleInputOn(ReleaseFrames)

InitRoles ==
    /\ \E b \in AllBindings, sh \in Shows :
         /\ ButtonsValid(b)
         /\ state = InitState(1, b, sh, 0, FALSE, FALSE, FALSE, 0)
    /\ spinner_active = FALSE
    /\ InitRest

NextRoles ==
    \/ HandleInputReleases
    \/ DrawScreen
    \/ GfxSync
    \/ TimeoutCheck
    \/ MainReturn

SpecRoles == InitRoles /\ [][NextRoles]_vars

\* the roles among action, confirm, cancel, inaction whose outcome the step
\* produced: the exit code of a role with the run ended, or a printed index
RoleCode ==
    [action |-> ExitCodeActionButton, confirm |-> ExitCodeConfirmButton,
     cancel |-> ExitCodeCancelButton, inaction |-> ExitCodeInactionButton]

Outcomes ==
    {r \in DOMAIN RoleCode :
        \/ state'.quitting = 1 /\ state'.exit_code = RoleCode[r]
        \/ r = "confirm" /\ out' # out}

\* the released button that comes first in the order A, B, X, Y
FirstOf(released) ==
    CHOOSE b \in released :
        \A c \in released : \E i, j \in 1..4 :
            /\ <<"A", "B", "X", "Y">>[i] = b
            /\ <<"A", "B", "X", "Y">>[j] = c
            /\ i <= j

\* the roles the binding gives to the first released button
RolesOfFrame(released, binding) ==
    IF released = {} THEN {}
    ELSE {r \in DOMAIN RoleCode : binding[r \o "_button"] = FirstOf(released)}

\* C31: a frame selects at most one of the action, confirm, cancel and
\* inaction outcomes, and which one is a function of the set of released
\* face buttons and the assignment alone: the role of the first released
\* button in the order A, B, X, Y, or none when that button has no role
C31_OneRolePerFrame ==
    [][(Polled /\ state.quitting = 0)
          => /\ Cardinality(Outcomes) <= 1
             /\ Outcomes = RolesOfFrame(pad'.released,
                                        [k \in {"action_button", "confirm_button",
                                                "cancel_button", "inaction_button"}
                                            |-> state[k]])]_vars

\* A and B are released together, A is the cancel button and B the confirm
\* button: the run ends with the cancel code and nothing is printed
C31_Witness ==
    /\ pc = "draw" /\ pad.polled
    /\ pad.released = {"A", "B"}
    /\ state.cancel_button = "A" /\ state.confirm_button = "B"
    /\ state.quitting = 1 /\ state.exit_code = ExitCodeCancelButton
    /\ out = << >>


\* the visibility rule of a role: action and inaction need their show flag
Visible(st, r) ==
    CASE r = "action" -> st.action_show
      [] r = "inaction" -> st.inaction_show
      [] OTHER -> TRUE

BoundButtons(st) ==
    {st.action_button, st.confirm_button, st.cancel_button, st.inaction_button} \ {""}

\* C35: with input enabled, the release of the button of a role whose
\* visibility rule is met ends the run with the code of that role in the
\* same frame, whichever buttons without a role are released with it
C35_BoundReleaseNotIgnored ==
    [][\A r \in DOMAIN RoleCode :
          (/\ Polled
           /\ state.quitting = 0
           /\ state[r \o "_button"] \in pad'.released
           /\ Visible(state, r)
           /\ (pad'.released \ {state[r \o "_button"]}) \cap BoundButtons(state) = {})
          => /\ state'.quitting = 1
             /\ state'.exit_code = RoleCode[r]]_vars


\* the fields of AppState that parse_arguments sets for the buttons
ButtonFields ==
    {"action_button", "confirm_button", "cancel_button", "inaction_button",
     "action_show", "confirm_show", "cancel_show", "inaction_show"}

\* C32: no step of the run changes item_count, the text, image path or line
\* spacing of an item, or the button and the show flag of a role; of the
\* catalog only selected and the image_exists of the item selected at the
\* start of the step change, and image_exists only from false to true
C32_CatalogImmutable ==
    [][/\ state'.item_count = state.item_count
       /\ state'.items = state.items
       /\ \A k \in ButtonFields : state'[k] = state[k]
       /\ DOMAIN state'.image_exists = DOMAIN state.image_exists
       /\ \A i \in DOMAIN state.image_exists :
             /\ state.image_exists[i] => state'.image_exists[i]
             /\ state'.image_exists[i] # state.image_exists[i] => i = state.selected]_vars

\* the image of item 0 was found, another item was selected and drawn, and
\* the catalog is as loaded
C32_Witness ==
    /\ pc = "timeout"
    /\ state.item_count = 3
    /\ state.selected = 2
    /\ state.image_exists[0]
    /\ state.scroll_state.content_height = ItemHeight[2]
    /\ \A i \in 0..2 : state.items[i].text = ItemText(i)


\* C33: whenever main is about to call draw_screen (redraw set or the spinner
\* active after handle_input returned), selected is an index of the catalog
C33_DrawIndexValid ==
    (pc = "draw" /\ (state.redraw # 0 \/ spinner_active)) => ValidIndex(state)


\* C34: a handle_input call that changes selected, scroll_position or
\* image_exists and does not end the run returns with redraw set, whatever
\* else was held or pressed in the frame
C34_ChangeIsDrawn ==
    [][(/\ HandleInputStep
        /\ state'.quitting = 0
        /\ \/ state'.selected # state.selected
           \/ state'.scroll_state.scroll_position # state.scroll_state.scroll_position
           \/ state'.image_exists # state.image_exists)
          => state'.redraw = 1]_vars


C37_NoEmptyLine ==
    (lay.done /\ lay.word_count > 0) =>
        \A k \in 1..(lay.current_message_index + 1) : lay.messages[k].words # << >>


(***************************************************************************)
(* The quiet runs: main from any catalog and any initially selected item,  *)
(* with no button ever pressed, held or released and no advance request;   *)
(* the frames are redrawn by the spinner, by the displayed countdown and   *)
(* by the lazy image check.                                                *)
(***************************************************************************)
InitQuiet ==
    /\ spinner_active \in BOOLEAN
    /\ \E n \in 1..MaxItems, t \in Timeouts, q \in BOOLEAN, w \in BOOLEAN,
          stl \in BOOLEAN :
         \E sel \in 0..(n - 1) :
            /\ (stl => t > 0)
            /\ (spinner_active => t = 0)
            /\ state = InitState(n, NavBinding, NavShows, t, q, w, stl, sel)
    /\ InitRest

HandleInputQuiet == HandleInputOn({NoInput})

NextQuiet ==
    \/ HandleInputQuiet
    \/ DrawScreen
    \/ GfxSync
    \/ TimeoutCheck
    \/ MainReturn
    \/ ImageAppears

SpecQuiet == InitQuiet /\ [][NextQuiet]_vars

\* C38: the jump to the bottom is pending until the first draw; from the
\* first draw on, if the initially selected item needs scrolling, the flag
\* is cleared and scroll_position is content_height - viewport_height, at
\* that draw and after every later recompute of a run without input
C38_ShownFromEnd ==
    LET sc == state.scroll_state IN
    IF sc.viewport_height = 0
    THEN sc.scroll_to_bottom /\ sc.scroll_position = 0
    ELSE /\ sc.needs_scroll = (ItemHeight[state.selected] > sc.viewport_height)
         /\ sc.needs_scroll =>
               /\ sc.scroll_position = sc.content_height - sc.viewport_height
               /\ sc.scroll_position > 0
               /\ ~sc.scroll_to_bottom

\* the first item needs scrolling and has been drawn again after a second
\* of the displayed countdown: it is still shown from its end
C38_Witness ==
    /\ pc = "timeout"
    /\ elapsed = 1
    /\ state.show_time_left
    /\ state.selected = 0
    /\ state.scroll_state.needs_scroll
    /\ state.scroll_state.scroll_position = MaxScroll(state)
    /\ state.scroll_state.scroll_position > 0


(***************************************************************************)
(* The first implementation (src/minui-presenter.c): draw_screen splits    *)
(* the text on spaces only and packs the words into MAIN_ROW_COUNT lines.  *)
(* The word loop is modelled turn by turn.                                 *)
(***************************************************************************)
\* the platform's number of rows of the main list
MAIN_ROW_COUNT == 6

\* at most this many turns of the word loop are followed
MaxTurns == MaxTextLen + 1

RECURSIVE SkipSpaces(_, _)
SkipSpaces(buf, i) ==
    IF i <= Len(buf) /\ buf[i] = SP THEN SkipSpaces(buf, i + 1) ELSE i

RECURSIVE TokenEnd(_, _)
TokenEnd(buf, i) ==
    IF i + 1 <= Len(buf) /\ buf[i + 1] # SP THEN TokenEnd(buf, i + 1) ELSE i

\* strtok(.., " ") resumed at index from of the buffer: no token (NULL), or
\* the token with the number of skipped spaces before it that are still in
\* the buffer, and whether the buffer starts with them
strtok(buf, from) ==
    LET s == SkipSpaces(buf, from) IN
    IF s > Len(buf) THEN << >>
    ELSE <<[str |-> SubSeq(buf, s, TokenEnd(buf, s)),
            skipped |-> s - from,
            at_start |-> from = 1,
            next |-> TokenEnd(buf, s) + 2]>>

\* a token of white space only
Blank(str) == str # << >> /\ \A i \in 1..Len(str) : isspace(str[i])

\* strtrim without a bound on l: on a blank token the first loop runs
\* backwards over the skipped spaces before the token.  It stops on the
\* terminator of the token before; at the start of the buffer it reads
\* the byte before the array, and after two or more spaces memmove is given
\* a negative length
TrimUndefined(tok) == Blank(tok.str) /\ (tok.at_start \/ tok.skipped >= 2)

LegacyLay(t, a) ==
    [text |-> t, avail |-> a, word |-> strtok(t, 1), words |-> << >>,
     word_height |-> 0, turns |-> 0, packed |-> FALSE,
     messages |-> <<EmptyMessage>>, message_count |-> 0,
     current_message_index |-> 0]

LegacyWidths == {NarrowWidth, MediumWidth}

InitLegacy ==
    /\ \E t \in Texts, a \in LegacyWidths :
         /\ lay = LegacyLay(t, a)
         /\ state = [InitState(1, NavBinding, NavShows, 0, FALSE, FALSE, FALSE, 0)
                        EXCEPT !.items[0].text = t]
    /\ spinner_active = FALSE
    /\ hand = NoHand
    /\ doc = NoDoc
    /\ image_file = FALSE
    /\ increment_item_list_index = 0
    /\ pad = NoInput
    /\ pc = "words"
    /\ elapsed = 0
    /\ out = << >>
    /\ exit_status = -1

\* one turn of the word loop: the token is trimmed in place; an empty one
\* takes the continue, which does not call strtok again
LegacyTurn(l) ==
    LET tok == l.word[1]
        word == strtrim(tok.str)
    IN  IF word = << >>
        THEN [l EXCEPT !.word = <<[tok EXCEPT !.str = << >>]>>, !.turns = @ + 1]
        ELSE [l EXCEPT !.words = Append(@, [message |-> word, width |-> TextWidth(word)]),
                       !.word_height = FontH,
                       !.word = strtok(l.text, tok.next),
                       !.turns = @ + 1]

WordLoopTurn ==
    /\ pc = "words"
    /\ lay.word # << >>
    /\ lay.turns < MaxTurns
    /\ \/ /\ lay' = LegacyTurn(lay)
          /\ pc' = pc
          /\ exit_status' = exit_status
       \/ /\ TrimUndefined(lay.word[1])
          /\ lay' = lay
          /\ pc' = "crashed"
          /\ exit_status' = 139
    /\ UNCHANGED <<state, increment_item_list_index, spinner_active, pad, elapsed,
                   image_file, out, hand, doc>>

\* one turn of the packing loop for word i of the words array (words[i - 1]
\* here is words[i] of the code)
LegacyPackWord(acc, w, i, avail) ==
    LET idx == acc.current_message_index
        cur == acc.messages[idx + 1]
        potential_width == cur.width + w.width + (IF i > 0 THEN LetterWidth ELSE 0)
    IN  IF potential_width <= avail
        THEN [acc EXCEPT !.messages[idx + 1] =
                  [words |-> Append(cur.words, w.message),
                   width |-> cur.width + w.width]]
        ELSE [acc EXCEPT !.messages = Append(@, NewMessage(w)),
                         !.current_message_index = idx + 1,
                         !.message_count = @ + 1]

RECURSIVE LegacyPackWords(_, _, _, _)
LegacyPackWords(acc, words, i, avail) ==
    IF i >= Len(words) THEN acc
    ELSE LegacyPackWords(LegacyPackWord(acc, words[i + 1], i, avail), words, i + 1, avail)

\* the word loop has ended: the words are packed; a line opened past the
\* end of the messages array is a write outside it
PackLines ==
    /\ pc = "words"
    /\ lay.word = << >>
    /\ \E r \in {LegacyPackWords(lay, lay.words, 0, lay.avail)} :
         IF r.current_message_index >= MAIN_ROW_COUNT
         THEN /\ lay' = lay
              /\ pc' = "crashed"
              /\ exit_status' = 139
         ELSE /\ lay' = [r EXCEPT !.packed = TRUE]
              /\ pc' = "packed"
              /\ exit_status' = exit_status
    /\ UNCHANGED <<state, increment_item_list_index, spinner_active, pad, elapsed,
                   image_file, out, hand, doc>>

NextLegacy ==
    \/ WordLoopTurn
    \/ PackLines

SpecLegacy == InitLegacy /\ [][NextLegacy]_vars

\* the tokens of the text that the word loop has not finished with
RECURSIVE TokensFrom(_, _)
TokensFrom(buf, from) ==
    LET t == strtok(buf, from) IN
    IF t = << >> THEN 0 ELSE 1 + TokensFrom(buf, t[1].next)

TokensLeft(l) ==
    IF l.word = << >> THEN 0 ELSE 1 + TokensFrom(l.text, l.word[1].next)

\* C39: every turn of the word loop of the first implementation finishes
\* with a token, the one that is empty after trimming included, so that the
\* loop ends after as many turns as the text has tokens
C39_WordLoopAdvances ==
    [][(pc = "words" /\ lay'.turns = lay.turns + 1)
          => TokensLeft(lay') = TokensLeft(lay) - 1]_vars

\* C40: in the first implementation the width tracked for a line of two or
\* more words is the measured width of the line, word widths and one
\* reference glyph per gap, and is within the available width
C40_TrackedIsMeasured ==
    (pc = "packed") =>
        \A k \in 1..Len(lay.messages) :
            Len(lay.messages[k].words) >= 2 =>
                /\ lay.messages[k].width = MeasuredWidth(lay.messages[k].words)
                /\ MeasuredWidth(lay.messages[k].words) <= lay.avail

=============================================================================
